---- MODULE Spec2Model ----
(***************************************************************************)
(* Model of JWTTokenGenerator (src/jwt_token_generator.js).                *)
(*                                                                         *)
(* One generator instance serves a sequence of generateToken calls.  Node  *)
(* runs the synchronous method to completion, so calls follow one another; *)
(* inside a call the position (pc) moves through validation, encoding,     *)
(* signing and the return, or leaves through the catch block.              *)
(*                                                                         *)
(* Text and byte strings are sequences of byte values (ASCII codes), so    *)
(* that base64 is computed, not assumed.  The crypto provider (Node's      *)
(* crypto module) is outside the repository: its digest and its RSA        *)
(* signature are deterministic stand-in functions of their inputs with the *)
(* right output length; what the model keeps exactly is which primitive    *)
(* is asked for, with which parameters, and in which output encoding.      *)
(***************************************************************************)
EXTENDS Integers, Sequences, FiniteSets, TLC

VARIABLES
    supportedAlgorithms, \* this.supportedAlgorithms of the instance
    pc,                  \* position of the current call
    headers,             \* the object the caller passed as headers
    payload,             \* the object the caller passed as payload
    signing_key,         \* third argument
    private_key,         \* fourth argument
    given,               \* the arguments as they were when the call began
    finalHeaders,        \* local of generateToken
    encodedHeader,       \* local of generateToken
    encodedPayload,      \* local of generateToken
    signingInput,        \* local of generateToken
    signature,           \* local of generateToken
    outcome,             \* what the call gave back: a token or an error
    encodeCalls,         \* base64UrlEncode calls made by the current call
    cryptoCalls,         \* crypto provider calls made by the current call
    console,             \* lines the current call wrote to console.error
    prev                 \* the call before, kept when the current one repeats it

vars == <<supportedAlgorithms, pc, headers, payload, signing_key, private_key,
          given, finalHeaders, encodedHeader, encodedPayload, signingInput,
          signature, outcome, encodeCalls, cryptoCalls, console, prev>>

----------------------------------------------------------------------------
(* Bounds and provider constants *)

\* Length in bytes of an RSA signature (the key's modulus length).
ModulusBytes == 3

\* Length in bytes of a SHA-256 digest.
DigestBytes == 32

----------------------------------------------------------------------------
(* JavaScript values *)

Undefined == [type |-> "undefined", str |-> "", fields |-> <<>>]
Null == [type |-> "null", str |-> "", fields |-> <<>>]
Str(s) == [type |-> "string", str |-> s, fields |-> <<>>]
Obj(fs) == [type |-> "object", str |-> "", fields |-> fs]
KeyObject(id) == [type |-> "object", str |-> id, fields |-> <<>>]
F(k, v) == [k |-> k, v |-> v]

\* typeof v
Typeof(v) == IF v.type = "null" THEN "object" ELSE v.type

\* !v is false
Truthy(v) ==
    /\ v.type \notin {"undefined", "null"}
    /\ ~(v.type = "string" /\ v.str = "")

HasProp(o, k) == \E i \in 1..Len(o.fields) : o.fields[i].k = k

\* o.k
Prop(o, k) ==
    IF HasProp(o, k)
    THEN Str((CHOOSE f \in {o.fields[i] : i \in 1..Len(o.fields)} : f.k = k).v)
    ELSE Undefined

\* The bytes of the strings the model uses (UTF-8, all ASCII).
Chars(s) ==
    CASE s = "" -> <<>>
      [] s = "alg" -> <<97, 108, 103>>
      [] s = "kid" -> <<107, 105, 100>>
      [] s = "typ" -> <<116, 121, 112>>
      [] s = "sub" -> <<115, 117, 98>>
      [] s = "x" -> <<120>>
      [] s = "y" -> <<121>>
      [] s = ">1" -> <<62, 49>>
      [] s = "?1" -> <<63, 49>>
      [] s = "u1" -> <<117, 49>>
      [] s = "k1" -> <<107, 49>>
      [] s = "JWT" -> <<74, 87, 84>>
      [] s = "at+jwt" -> <<97, 116, 43, 106, 119, 116>>
      [] s = "PS256" -> <<80, 83, 50, 53, 54>>
      [] s = "RS256" -> <<82, 83, 50, 53, 54>>
      [] s = "HS256" -> <<72, 83, 50, 53, 54>>
      [] s = "SHA256" -> <<83, 72, 65, 50, 53, 54>>

RECURSIVE SumSeq(_)
SumSeq(s) == IF s = <<>> THEN 0 ELSE s[1] + SumSeq(Tail(s))

----------------------------------------------------------------------------
(* Buffer.from(str).toString("base64") and base64UrlEncode *)

\* The character of the base64 alphabet for a 6-bit value.
B64Char(n) ==
    IF n < 26 THEN 65 + n
    ELSE IF n < 52 THEN 97 + (n - 26)
    ELSE IF n < 62 THEN 48 + (n - 52)
    ELSE IF n = 62 THEN 43 ELSE 47

\* Standard base64 with padding: what toString("base64"), digest("base64")
\* and sign(key, "base64") produce for a byte sequence.
RECURSIVE ToBase64(_)
ToBase64(b) ==
    IF Len(b) = 0 THEN <<>>
    ELSE IF Len(b) = 1 THEN
        <<B64Char(b[1] \div 4), B64Char((b[1] % 4) * 16), 61, 61>>
    ELSE IF Len(b) = 2 THEN
        <<B64Char(b[1] \div 4), B64Char((b[1] % 4) * 16 + b[2] \div 16),
          B64Char((b[2] % 16) * 4), 61>>
    ELSE
        <<B64Char(b[1] \div 4), B64Char((b[1] % 4) * 16 + b[2] \div 16),
          B64Char((b[2] % 16) * 4 + b[3] \div 64), B64Char(b[3] % 64)>>
        \o ToBase64(SubSeq(b, 4, Len(b)))

\* .replace(/x/g, y) on a text, y one character
ReplaceChar(t, x, y) == [i \in 1..Len(t) |-> IF t[i] = x THEN y ELSE t[i]]

\* .replace(/x/g, "")
RemoveChar(t, x) == SelectSeq(t, LAMBDA c : c # x)

\* Faulty variant: the padding is left in.
base64UrlEncodePadded(str) ==
    ReplaceChar(ReplaceChar(ToBase64(str), 43, 45), 47, 95)

\* base64UrlEncode(str): str is a text, Buffer.from takes its UTF-8 bytes
base64UrlEncode(str) ==
    RemoveChar(ReplaceChar(ReplaceChar(ToBase64(str), 43, 45), 47, 95), 61)

----------------------------------------------------------------------------
(* JSON.stringify and the object spread *)

Quote(s) == <<34>> \o Chars(s) \o <<34>>

Member(f) == Quote(f.k) \o <<58>> \o Quote(f.v)

RECURSIVE Members(_)
Members(fs) ==
    IF fs = <<>> THEN <<>>
    ELSE IF Len(fs) = 1 THEN Member(fs[1])
    ELSE Member(fs[1]) \o <<44>> \o Members(Tail(fs))

\* JSON.stringify(o) for an object whose members are strings: the members in
\* the object's own order.
JSONstringify(o) == <<123>> \o Members(o.fields) \o <<125>>

\* The members of { ...o, k: v }: o's own members in o's order; k keeps its
\* place when o has it and comes last when o has not.
SpreadWith(o, k, v) ==
    IF HasProp(o, k)
    THEN [i \in 1..Len(o.fields) |->
             IF o.fields[i].k = k THEN F(k, v) ELSE o.fields[i]]
    ELSE Append(o.fields, F(k, v))

\* Faulty variant: { typ: "JWT", ...headers }, where the caller's typ wins.
FinalHeadersCallerTyp(h) ==
    IF HasProp(h, "typ") THEN Obj(h.fields)
    ELSE Obj(<<F("typ", "JWT")>> \o h.fields)

\* const finalHeaders = { ...headers, typ: "JWT" }
FinalHeaders(h) == Obj(SpreadWith(h, "typ", "JWT"))

----------------------------------------------------------------------------
(* The crypto provider: require("crypto") *)

\* Key material the provider can sign with: an RSA private key as PEM text,
\* or a key handle.
IsRsaPrivateKey(k) ==
    \/ k.type = "string" /\ k.str \in {"PEM_A", "PEM_B"}
    \/ k.type = "object" /\ k.str = "KeyObject_A"

KeyNumber(k) ==
    CASE k.str = "PEM_A" -> 5
      [] k.str = "PEM_B" -> 11
      [] OTHER -> 7

\* createHash("sha256").update(data).digest(): DigestBytes bytes fixed by data.
Sha256(data) ==
    LET sum == SumSeq(data)
    IN  [i \in 1..DigestBytes |-> (sum * i + 31 * i + Len(data)) % 256]

\* The RSASSA-PKCS1-v1_5 signature of data under key: ModulusBytes bytes
\* fixed by the key and the data.
RsaPkcs1v15(key, data) ==
    LET sum == SumSeq(data)
    IN  [i \in 1..ModulusBytes |-> (sum * i + KeyNumber(key) * 17 + i) % 256]

NoBytes == <<>>

\* crypto.createSign("RSA-SHA256"); sign.update(data); sign.sign(key, "base64").
\* No padding option is passed, so an RSA key signs with the provider's
\* default, RSA_PKCS1_PADDING, and no salt.  Text that is no key is rejected.
CreateSignRsaSha256(data, key) ==
    [api |-> "createSign", algorithm |-> "RSA-SHA256",
     padding |-> "RSA_PKCS1_PADDING", saltLength |-> 0,
     ok |-> IsRsaPrivateKey(key),
     raw |-> IF IsRsaPrivateKey(key) THEN RsaPkcs1v15(key, data) ELSE NoBytes,
     text |-> IF IsRsaPrivateKey(key) THEN ToBase64(RsaPkcs1v15(key, data))
              ELSE NoBytes,
     error |-> IF IsRsaPrivateKey(key) THEN ""
               ELSE "error:1E08010C:DECODER routines::unsupported"]

\* crypto.createHash("sha256"); hash.update(data); hash.digest("base64")
CreateHashSha256(data) ==
    [api |-> "createHash", algorithm |-> "sha256",
     padding |-> "none", saltLength |-> 0,
     ok |-> TRUE,
     raw |-> Sha256(data),
     text |-> ToBase64(Sha256(data)),
     error |-> ""]

----------------------------------------------------------------------------
(* The sign helpers.  Each gives back what the helper did: the value it    *)
(* returned or the error it rethrew, the provider call it made, the lines  *)
(* its catch block wrote, and the number of base64UrlEncode calls.         *)

Helper(call, name) ==
    IF call.ok
    THEN [threw |-> FALSE, value |-> base64UrlEncode(call.text), error |-> "",
          calls |-> <<call>>, log |-> <<>>, encodes |-> 1]
    ELSE [threw |-> TRUE, value |-> NoBytes, error |-> call.error,
          calls |-> <<call>>,
          log |-> <<name \o " Signing Error: " \o call.error>>, encodes |-> 0]

signPS256(data, key) == Helper(CreateSignRsaSha256(data, key), "PS256")

signRS256(data, key) == Helper(CreateSignRsaSha256(data, key), "RS256")

\* Faulty variant: the digest is keyed with the call's signing_key.
signSHA256Keyed(data, key) ==
    Helper(CreateHashSha256(data \o (IF signing_key = Str("keyA") THEN <<1>>
                                     ELSE IF signing_key = Str("keyB") THEN <<2>>
                                     ELSE <<>>)), "SHA256")

signSHA256(data, key) == Helper(CreateHashSha256(data), "SHA256")

----------------------------------------------------------------------------
(* generateToken *)

RECURSIVE Join(_)
Join(names) ==
    IF names = <<>> THEN ""
    ELSE IF Len(names) = 1 THEN names[1]
    ELSE names[1] \o ", " \o Join(Tail(names))

\* this.supportedAlgorithms.includes(v)
Includes(list, v) ==
    v.type = "string" /\ \E i \in 1..Len(list) : list[i] = v.str

\* Faulty variant: the kid check is missing.
ValidationErrorNoKid(h, p, key, supported) ==
    IF ~Truthy(h) \/ Typeof(h) # "object" THEN "Headers must be an object"
    ELSE IF ~Truthy(p) \/ Typeof(p) # "object" THEN "Payload must be an object"
    ELSE IF ~Truthy(key) \/ Typeof(key) # "string"
        THEN "Private key must be a string in PEM format"
    ELSE IF ~Truthy(Prop(h, "alg")) \/ ~Includes(supported, Prop(h, "alg"))
        THEN "Invalid algorithm. Supported: " \o Join(supported)
    ELSE ""

\* The checks at the head of the try block, in their order: the message of
\* the first one that throws, "" when none does.
ValidationError(h, p, key, supported) ==
    IF ~Truthy(h) \/ Typeof(h) # "object" THEN "Headers must be an object"
    ELSE IF ~Truthy(p) \/ Typeof(p) # "object" THEN "Payload must be an object"
    ELSE IF ~Truthy(key) \/ Typeof(key) # "string"
        THEN "Private key must be a string in PEM format"
    ELSE IF ~Truthy(Prop(h, "alg")) \/ ~Includes(supported, Prop(h, "alg"))
        THEN "Invalid algorithm. Supported: " \o Join(supported)
    ELSE IF ~Truthy(Prop(h, "kid")) THEN "Missing 'kid' in headers"
    ELSE ""

\* The switch on finalHeaders.alg.
Dispatch(fh, data, key) ==
    LET alg == Prop(fh, "alg").str
    IN  CASE alg = "PS256" -> signPS256(data, key)
          [] alg = "RS256" -> signRS256(data, key)
          [] alg = "SHA256" -> signSHA256(data, key)
          [] OTHER ->
              [threw |-> TRUE, value |-> NoBytes,
               error |-> "Unsupported algorithm: " \o alg,
               calls |-> <<>>, log |-> <<>>, encodes |-> 0]

\* Faulty variant: the catch block rethrows without writing.
CatchSilent(message) == <<>>

\* The catch block of generateToken: the line it writes before it rethrows.
CatchLog(message) == <<"JWT Generation Error: " \o message>>

NoOutcome == [kind |-> "none", token |-> NoBytes, error |-> ""]
Returned(t) == [kind |-> "token", token |-> t, error |-> ""]
Threw(m) == [kind |-> "error", token |-> NoBytes, error |-> m]

NoArgs == [headers |-> Undefined, payload |-> Undefined,
           signing_key |-> Undefined, private_key |-> Undefined]
NoCall == [called |-> FALSE, args |-> NoArgs, outcome |-> NoOutcome]

----------------------------------------------------------------------------
(* What callers pass *)

HeaderInputs ==
    { Undefined,
      Null,
      Obj(<<F("alg", "RS256"), F("kid", "k1")>>),
      Obj(<<F("alg", "PS256"), F("kid", "k1"), F("typ", "JWT")>>),
      Obj(<<F("alg", "SHA256"), F("kid", "k1")>>),
      Obj(<<F("typ", "at+jwt"), F("alg", "SHA256"), F("x", "y"), F("kid", "k1")>>),
      Obj(<<F("alg", "HS256"), F("kid", "k1")>>),
      Obj(<<F("alg", "HS256")>>),
      Obj(<<F("alg", "RS256")>>),
      Obj(<<F("alg", "PS256"), F("kid", "")>>),
      Obj(<<F("kid", "k1")>>) }

PayloadInputs ==
    { Str("u1"),
      Obj(<<>>),
      Obj(<<F("sub", "u1")>>),
      Obj(<<F("sub", "?1"), F("x", ">1")>>) }

SigningKeyInputs == { Undefined, Str("keyA"), Str("keyB") }

PrivateKeyInputs ==
    { Undefined, Str(""), Str("your_private_key"),
      Str("PEM_A"), Str("PEM_B"), KeyObject("KeyObject_A") }

Args == [headers |-> headers, payload |-> payload,
         signing_key |-> signing_key, private_key |-> private_key]

\* Two argument lists that differ at most in signing_key.
SameButSigningKey(a, b) ==
    /\ a.headers = b.headers
    /\ a.payload = b.payload
    /\ a.private_key = b.private_key

----------------------------------------------------------------------------
(* The state machine *)

Init ==
    /\ supportedAlgorithms = <<"PS256", "RS256", "SHA256">>
    /\ pc = "idle"
    /\ headers = Undefined
    /\ payload = Undefined
    /\ signing_key = Undefined
    /\ private_key = Undefined
    /\ given = NoArgs
    /\ finalHeaders = Undefined
    /\ encodedHeader = NoBytes
    /\ encodedPayload = NoBytes
    /\ signingInput = NoBytes
    /\ signature = NoBytes
    /\ outcome = NoOutcome
    /\ encodeCalls = 0
    /\ cryptoCalls = <<>>
    /\ console = <<>>
    /\ prev = NoCall

\* A caller calls generateToken(headers, payload, signing_key, private_key)
\* once the call before has ended.
Invoke ==
    /\ pc \in {"idle", "returned", "threw"}
    /\ \E h \in HeaderInputs, p \in PayloadInputs,
          sk \in SigningKeyInputs, key \in PrivateKeyInputs :
        /\ headers' = h
        /\ payload' = p
        /\ signing_key' = sk
        /\ private_key' = key
        /\ given' = [headers |-> h, payload |-> p,
                     signing_key |-> sk, private_key |-> key]
        /\ prev' = IF pc # "idle" /\ SameButSigningKey(given, given')
                   THEN [called |-> TRUE, args |-> given, outcome |-> outcome]
                   ELSE NoCall
    /\ pc' = "validate"
    /\ finalHeaders' = Undefined
    /\ encodedHeader' = NoBytes
    /\ encodedPayload' = NoBytes
    /\ signingInput' = NoBytes
    /\ signature' = NoBytes
    /\ outcome' = NoOutcome
    /\ encodeCalls' = 0
    /\ cryptoCalls' = <<>>
    /\ console' = <<>>
    /\ UNCHANGED supportedAlgorithms

\* Lines 23-39, and the catch block when one of them throws.
Validate ==
    /\ pc = "validate"
    /\ LET e == ValidationError(headers, payload, private_key, supportedAlgorithms)
       IN  IF e # ""
           THEN /\ console' = console \o CatchLog(e)
                /\ outcome' = Threw(e)
                /\ pc' = "threw"
           ELSE /\ pc' = "encode"
                /\ UNCHANGED <<console, outcome>>
    /\ UNCHANGED <<supportedAlgorithms, headers, payload, signing_key,
                   private_key, given, finalHeaders, encodedHeader,
                   encodedPayload, signingInput, signature, encodeCalls,
                   cryptoCalls, prev>>

\* Faulty variant: typ is written into the caller's object (headers.typ =
\* "JWT"; finalHeaders = headers) instead of into a copy.
EncodeInPlace ==
    /\ pc = "encode"
    /\ headers' = FinalHeaders(headers)
    /\ finalHeaders' = headers'
    /\ encodedHeader' = base64UrlEncode(JSONstringify(finalHeaders'))
    /\ encodedPayload' = base64UrlEncode(JSONstringify(payload))
    /\ signingInput' = encodedHeader' \o <<46>> \o encodedPayload'
    /\ encodeCalls' = encodeCalls + 2
    /\ pc' = "sign"
    /\ UNCHANGED <<supportedAlgorithms, payload, signing_key,
                   private_key, given, signature, outcome, cryptoCalls,
                   console, prev>>

\* Lines 42-47.
Encode ==
    /\ pc = "encode"
    /\ finalHeaders' = FinalHeaders(headers)
    /\ encodedHeader' = base64UrlEncode(JSONstringify(finalHeaders'))
    /\ encodedPayload' = base64UrlEncode(JSONstringify(payload))
    /\ signingInput' = encodedHeader' \o <<46>> \o encodedPayload'
    /\ encodeCalls' = encodeCalls + 2
    /\ pc' = "sign"
    /\ UNCHANGED <<supportedAlgorithms, headers, payload, signing_key,
                   private_key, given, signature, outcome, cryptoCalls,
                   console, prev>>

\* Lines 50-63, the helper the switch calls, and the catch blocks when the
\* helper throws.
Sign ==
    /\ pc = "sign"
    /\ LET r == Dispatch(finalHeaders, signingInput, private_key)
       IN  /\ cryptoCalls' = cryptoCalls \o r.calls
           /\ encodeCalls' = encodeCalls + r.encodes
           /\ IF r.threw
              THEN /\ console' = console \o r.log \o CatchLog(r.error)
                   /\ outcome' = Threw(r.error)
                   /\ pc' = "threw"
                   /\ UNCHANGED signature
              ELSE /\ signature' = r.value
                   /\ pc' = "return"
                   /\ UNCHANGED <<console, outcome>>
    /\ UNCHANGED <<supportedAlgorithms, headers, payload, signing_key,
                   private_key, given, finalHeaders, encodedHeader,
                   encodedPayload, signingInput, prev>>

\* Line 66.
Return ==
    /\ pc = "return"
    /\ outcome' = Returned(encodedHeader \o <<46>> \o encodedPayload
                           \o <<46>> \o signature)
    /\ pc' = "returned"
    /\ UNCHANGED <<supportedAlgorithms, headers, payload, signing_key,
                   private_key, given, finalHeaders, encodedHeader,
                   encodedPayload, signingInput, signature, encodeCalls,
                   cryptoCalls, console, prev>>

Next == Invoke \/ Validate \/ Encode \/ Sign \/ Return

Spec == Init /\ [][Next]_vars

----------------------------------------------------------------------------
(* Reading a token back, and the validation the design asks for *)

\* The 6-bit value of a character of the base64url alphabet.
B64Value(c) ==
    IF c >= 65 /\ c <= 90 THEN c - 65
    ELSE IF c >= 97 /\ c <= 122 THEN c - 97 + 26
    ELSE IF c >= 48 /\ c <= 57 THEN c - 48 + 52
    ELSE IF c = 45 THEN 62 ELSE 63

\* The bytes an unpadded base64url text stands for.
RECURSIVE FromBase64Url(_)
FromBase64Url(t) ==
    IF Len(t) < 2 THEN <<>>
    ELSE IF Len(t) = 2 THEN
        <<B64Value(t[1]) * 4 + B64Value(t[2]) \div 16>>
    ELSE IF Len(t) = 3 THEN
        <<B64Value(t[1]) * 4 + B64Value(t[2]) \div 16,
          (B64Value(t[2]) % 16) * 16 + B64Value(t[3]) \div 4>>
    ELSE
        <<B64Value(t[1]) * 4 + B64Value(t[2]) \div 16,
          (B64Value(t[2]) % 16) * 16 + B64Value(t[3]) \div 4,
          (B64Value(t[3]) % 4) * 64 + B64Value(t[4])>>
        \o FromBase64Url(SubSeq(t, 5, Len(t)))

Count(t, c) == Cardinality({i \in 1..Len(t) : t[i] = c})

\* The parts of a text between its '.' characters.
RECURSIVE Segments(_)
Segments(t) ==
    IF Count(t, 46) = 0 THEN <<t>>
    ELSE LET d == CHOOSE i \in 1..Len(t) :
                      t[i] = 46 /\ \A j \in 1..(i - 1) : t[j] # 46
         IN  <<SubSeq(t, 1, d - 1)>> \o Segments(SubSeq(t, d + 1, Len(t)))

Ended == pc \in {"returned", "threw"}

AlgOf(a) == Prop(a.headers, "alg").str

\* An object-shaped, non-null value.
IsObject(v) == v.type = "object"

\* Key material that is present: non-empty PEM text or a key handle.
KeyPresent(k) == Truthy(k) /\ k.type \in {"string", "object"}

\* The error kind the design gives a call: its five checks in its order.
FirstFailure(a) ==
    IF ~IsObject(a.headers) THEN "InvalidHeaderType"
    ELSE IF ~IsObject(a.payload) THEN "InvalidPayloadType"
    ELSE IF AlgOf(a) \notin {"PS256", "RS256", "SHA256"} THEN "InvalidAlgorithm"
    ELSE IF ~Truthy(Prop(a.headers, "kid")) THEN "MissingKeyId"
    ELSE IF AlgOf(a) \in {"PS256", "RS256"} /\ ~KeyPresent(a.private_key)
        THEN "MissingPrivateKey"
    ELSE "none"

\* The design's error kind for a message of the code.
ErrorKind(m) ==
    CASE m = "Headers must be an object" -> "InvalidHeaderType"
      [] m = "Payload must be an object" -> "InvalidPayloadType"
      [] m = "Private key must be a string in PEM format" -> "MissingPrivateKey"
      [] m = "Invalid algorithm. Supported: PS256, RS256, SHA256" -> "InvalidAlgorithm"
      [] m = "Missing 'kid' in headers" -> "MissingKeyId"
      [] OTHER -> "SigningFailure"

----------------------------------------------------------------------------
(* Claims *)

\* C1: a call that fails one of the five checks (header object, payload
\* object, alg supported, kid present, private key present for PS256/RS256)
\* raises the error of the first check that fails in that order.
C1_ValidationOrder ==
    (pc \notin {"idle", "validate"} /\ FirstFailure(given) # "none")
        => /\ outcome.kind = "error"
           /\ ErrorKind(outcome.error) = FirstFailure(given)

\* C2: an otherwise valid SHA256 call without a private key returns a token.
C2_Sha256NeedsNoKey ==
    (Ended /\ FirstFailure(given) = "none" /\ AlgOf(given) = "SHA256"
           /\ ~Truthy(given.private_key))
        => outcome.kind = "token"

\* C3: nothing is encoded and the crypto provider is not called before the
\* checks have passed; a call that fails a check has encoded nothing and made
\* no provider call; a call that ends in an error gives back no token.
C3_NoWorkBeforeValidation ==
    /\ pc = "validate" => encodeCalls = 0 /\ cryptoCalls = <<>>
    /\ (pc # "idle" /\ FirstFailure(given) # "none")
           => encodeCalls = 0 /\ cryptoCalls = <<>> /\ pc \in {"validate", "threw"}
    /\ (outcome.kind = "error" /\ ErrorKind(outcome.error) # "SigningFailure")
           => encodeCalls = 0 /\ cryptoCalls = <<>>
    /\ pc = "threw" => outcome.kind = "error" /\ outcome.token = <<>>
    /\ outcome.kind = "token" => pc = "returned"

C3_Witness ==
    /\ pc = "threw"
    /\ FirstFailure(given) = "InvalidAlgorithm"
    /\ ErrorKind(outcome.error) = "InvalidAlgorithm"

\* C4: a PS256 call signs with RSASSA-PSS, salt length 32, which is not the
\* primitive an RS256 call signs with.
C4_Ps256UsesPss ==
    (pc \in {"return", "returned"} /\ AlgOf(given) = "PS256")
        => /\ Len(cryptoCalls) = 1
           /\ cryptoCalls[1].padding = "RSA_PKCS1_PSS_PADDING"
           /\ cryptoCalls[1].saltLength = 32

\* C5: the third segment of a returned token, base64url-decoded, is the raw
\* signature (for SHA256 the 32-byte digest of the signing input).
C5_SignatureSegmentIsRaw ==
    pc = "returned"
        => /\ Len(cryptoCalls) = 1
           /\ FromBase64Url(Segments(outcome.token)[3]) = cryptoCalls[1].raw

OtherMembers(o) == SelectSeq(o.fields, LAMBDA f : f.k # "typ")

\* C6: the header serialized into the first segment of a returned token has
\* typ = "JWT" and has the caller's other members, with their values, in the
\* caller's order.
C6_TypAlwaysJwt ==
    pc = "returned"
        => /\ Prop(finalHeaders, "typ") = Str("JWT")
           /\ Cardinality({i \in 1..Len(finalHeaders.fields) :
                               finalHeaders.fields[i].k = "typ"}) = 1
           /\ OtherMembers(finalHeaders) = OtherMembers(given.headers)
           /\ FromBase64Url(Segments(outcome.token)[1])
                  = JSONstringify(finalHeaders)

C6_Witness ==
    /\ pc = "returned"
    /\ Prop(given.headers, "typ") = Str("at+jwt")
    /\ Len(OtherMembers(given.headers)) = 3

\* C7: a returned token has exactly two '.' and three non-empty segments, and
\* holds no '+', '/' or '='.
C7_TokenShape ==
    pc = "returned"
        => /\ Count(outcome.token, 46) = 2
           /\ Len(Segments(outcome.token)) = 3
           /\ \A i \in 1..3 : Segments(outcome.token)[i] # <<>>
           /\ Count(outcome.token, 43) = 0
           /\ Count(outcome.token, 47) = 0
           /\ Count(outcome.token, 61) = 0

C7_Witness ==
    /\ pc = "returned"
    /\ Count(ToBase64(JSONstringify(given.payload)), 43) > 0
    /\ Count(ToBase64(JSONstringify(given.payload)), 47) > 0
    /\ Count(ToBase64(JSONstringify(finalHeaders)), 61) > 0

\* C8: two calls that differ only in signing_key both raise the same error
\* or both return, and under RS256 and SHA256 they return the same token.
C8_SigningKeyIgnored ==
    (Ended /\ prev.called /\ SameButSigningKey(prev.args, given))
        => /\ outcome.kind = prev.outcome.kind
           /\ outcome.error = prev.outcome.error
           /\ AlgOf(given) \in {"RS256", "SHA256"}
                  => outcome.token = prev.outcome.token

C8_Witness ==
    /\ pc = "returned"
    /\ prev.called
    /\ prev.args.signing_key = Str("keyA")
    /\ given.signing_key = Str("keyB")
    /\ AlgOf(given) = "RS256"

====
